---------------------------- MODULE Spec2Model ----------------------------
(***************************************************************************)
(* A model of the ssclient core of seeker:                                 *)
(*   - connection_pool.rs: Pool (idle queue, refill loop, get_connection)  *)
(*   - tcp_io.rs: SSTcpStream (handshake state machine, liveness flag,     *)
(*     poll_read / poll_write / poll_flush / poll_close)                   *)
(* The two halves share no state; PoolSpec and StreamSpec run each half    *)
(* alone, Spec runs both.                                                  *)
(***************************************************************************)
EXTENDS Integers, Sequences, FiniteSets, TLC

(***************************************************************************)
(* Bounds of the model.                                                    *)
(***************************************************************************)
\* Pool::new's max_idle argument.
MaxIdle == 2
\* Total number of get_connection calls issued in a behaviour.
MaxAcquires == 2
\* Total number of connector calls that fail in a behaviour.
MaxFailures == 1

\* Length of the peer's IV (stream ciphers) or salt (AEAD ciphers): prev_len.
IvLen == 2
\* Number of bytes the peer sends beyond its IV/salt.
MaxPayload == 1
\* Length of the address descriptor connect announces: addr_buf.len().
AddrLen == 2
\* Number of data writes the record of the transport's write side keeps.
MaxData == 1
\* The tasks that call get_connection, each any number of times, concurrently.
Callers == {1, 2}
\* The handles of one SSTcpStream: the one its constructor returns and a clone.
Handles == {1, 2}
Ops == {"read", "write", "flush", "close"}

\* The tag of the refill loop as the maker of a stream (callers are 1, 2).
LoopOwner == 0

VARIABLES
    \* ---- Pool (connection_pool.rs) ----
    connections,   \* Pool.connections: the idle queue, a sequence of streams
    qlock,         \* holders of the async Mutex around connections across steps: {} or {c}
    chan,          \* number of () messages in the channel(1) of Pool::new
    calls,         \* number of connector calls started so far
    failures,      \* number of connector calls that returned Err
    lpc,           \* position of run_connection_pool
    need,          \* iterations left of `for _ in 0..(max_idle - len)`
    lconn,         \* the result of the connector call of line 44
    cpc,           \* cpc[c]: position of caller c inside get_connection
    ret,           \* ret[c]: the `ret` of line 74, and after the return the call's result
    issued,        \* number of get_connection calls issued
    handed,        \* the streams of the refill loop that get_connection has returned so far
    passes,        \* number of refill passes started (line 42 reached)
    signals,       \* number of sends of line 80 that have completed
    \* ---- SSTcpStream (tcp_io.rs) ----
    mode,          \* how the stream is built: "connect" or "accept"
    stage,         \* position of the constructor: "new", "addr" (connect at line 117),
                   \* "Ok" (it returned the stream) or "Err.." (connect returned Err)
    addrLeft,      \* bytes of addr_buf that write_all of line 117 has still to write
    tx,            \* what was written to the transport, in order: "iv", "addr", "data"
    hsEof,         \* the handshake drive has returned UnexpectedEof (lines 177-180)
    server_alive,  \* SSTcpStream.server_alive: the shared liveness flag
    rs_state,      \* SSTcpStream.read_status: "WaitIv" or "Established"
    rs_pos,        \* the already_read_bytes of ReadStatus::WaitIv
    rsLock,        \* holders of the Mutex around read_status across steps: {} or {h}
    handles,       \* the handles of the stream that exist (clones share the Arcs)
    dec,           \* dec[h]: the handle's Option<Arc<..DecryptedReader..>>: 0 is None
    readers,       \* number of DecryptedReaders constructed so far
    hpc,           \* hpc[h]: position of handle h inside a poll_* call
    op,            \* op[h]: the operation of the handle's current or last poll
    res,           \* res[h]: the result of the handle's last poll
    pend,          \* pend[h]: the operation suspended on Poll::Pending, or "none"
    rx,            \* bytes the transport holds for reading
    peerSent,      \* bytes the peer has sent so far
    rstate,        \* the transport: "open", "eof" (peer closed) or "err" (failed)
    wready         \* the transport accepts a write, flush or close without waiting

poolVars == <<connections, qlock, chan, calls, failures, lpc, need, lconn, cpc, ret,
              issued, handed, passes, signals>>

streamVars == <<mode, stage, addrLeft, tx, hsEof, server_alive, rs_state, rs_pos, rsLock, handles, dec, readers,
                hpc, op, res, pend, rx, peerSent, rstate, wready>>

\* The k-th connector call, started by `by` (LoopOwner or a caller), yields the
\* stream Conn(by, k) or the error Conn(by, k) wrapped in Err.
Conn(by, k) == <<by, k>>
NoConn == <<>>
NoRet == <<"None", NoConn>>
Pending(x) == <<"Pending", x>>
OkRet(x) == <<"Ok", x>>
ErrRet(x) == <<"Err", x>>

\* Pool::new, line 29: channel(1).
ChannelCap == 1

\* Pool::new: an empty VecDeque, an empty channel; no task runs the loop yet.
PoolInit ==
    /\ connections = <<>>
    /\ qlock = {}
    /\ chan = 0
    /\ calls = 0
    /\ failures = 0
    /\ lpc = "new"
    /\ need = 0
    /\ lconn = NoConn
    /\ cpc = [c \in Callers |-> "idle"]
    /\ ret = [c \in Callers |-> NoRet]
    /\ issued = 0
    /\ handed = {}
    /\ passes = 0
    /\ signals = 0

(***************************************************************************)
(* run_connection_pool                                                     *)
(***************************************************************************)
\* task::spawn(async move { pool_clone.run_connection_pool().await })
SpawnLoop ==
    /\ lpc = "new"
    /\ lpc' = "len"
    /\ UNCHANGED <<connections, qlock, chan, calls, failures, need, lconn, cpc, ret,
                   issued>>
    /\ UNCHANGED <<handed, passes, signals>>
    /\ UNCHANGED streamVars

\* A variant of RefillCount that asks for one stream too many.
RefillCountOneMore(len) == IF len <= MaxIdle THEN MaxIdle - len + 1 ELSE 0

\* A variant of RefillCount that asks for one stream too few.
RefillCountOneLess(len) == IF len < MaxIdle THEN MaxIdle - len - 1 ELSE 0

\* The count of line 43, `self.max_idle - len` on usize: a len above max_idle
\* overflows (a panic in a debug build), modelled as no iteration.
RefillCount(len) == IF len <= MaxIdle THEN MaxIdle - len ELSE 0

\* line 42: let len = connections.lock().await.len();  (the guard is a temporary
\* of the statement), and line 43: the range of the for loop is fixed here.
LoopLen ==
    /\ lpc = "len"
    /\ qlock = {}
    /\ need' = RefillCount(Len(connections))
    /\ passes' = passes + 1
    /\ lpc' = "for"
    /\ UNCHANGED <<connections, qlock, chan, calls, failures, lconn, cpc, ret, issued>>
    /\ UNCHANGED <<handed, signals>>
    /\ UNCHANGED streamVars

\* line 44: one more iteration: self.new_connection() is called.
LoopCall ==
    /\ lpc = "for"
    /\ need > 0
    /\ need' = need - 1
    /\ calls' = calls + 1
    /\ lconn' = Conn(LoopOwner, calls + 1)
    /\ lpc' = "factory"
    /\ UNCHANGED <<connections, qlock, chan, failures, cpc, ret, issued>>
    /\ UNCHANGED <<handed, passes, signals>>
    /\ UNCHANGED streamVars

\* line 45: the connector returned Ok(conn).
LoopFactoryOk ==
    /\ lpc = "factory"
    /\ lpc' = "push"
    /\ UNCHANGED <<connections, qlock, chan, calls, failures, need, lconn, cpc, ret,
                   issued>>
    /\ UNCHANGED <<handed, passes, signals>>
    /\ UNCHANGED streamVars

\* A variant of OnRefillErr that leaves the loop on a failed creation (`break`).
OnRefillErrBreak == "stopped"

\* Where the loop goes after a failed creation: lines 46-48, `continue`.
OnRefillErr == "for"

\* lines 46-48: the connector returned Err(_); the error is dropped.
LoopFactoryErr ==
    /\ lpc = "factory"
    /\ failures < MaxFailures
    /\ failures' = failures + 1
    /\ lconn' = NoConn
    /\ lpc' = OnRefillErr
    /\ UNCHANGED <<connections, qlock, chan, calls, need, cpc, ret, issued>>
    /\ UNCHANGED <<handed, passes, signals>>
    /\ UNCHANGED streamVars

\* lines 50-51: lock, push_back; the guard `conns` drops at the end of the iteration.
LoopPush ==
    /\ lpc = "push"
    /\ qlock = {}
    /\ connections' = Append(connections, lconn)
    /\ lconn' = NoConn
    /\ lpc' = "for"
    /\ UNCHANGED <<qlock, chan, calls, failures, need, cpc, ret, issued>>
    /\ UNCHANGED <<handed, passes, signals>>
    /\ UNCHANGED streamVars

\* A variant of AfterPass in which the loop starts its next pass at once instead
\* of waiting for a signal.
AfterPassPoll == "len"

\* Where the loop goes when a pass is over: line 53, receiver.recv().await.
AfterPass == "recv"

\* line 43: the range is exhausted.
LoopPassDone ==
    /\ lpc = "for"
    /\ need = 0
    /\ lpc' = AfterPass
    /\ UNCHANGED <<connections, qlock, chan, calls, failures, need, lconn, cpc, ret,
                   issued>>
    /\ UNCHANGED <<handed, passes, signals>>
    /\ UNCHANGED streamVars

\* The channel is closed when every Sender is dropped; the Pool that runs the loop
\* owns one (line 23) for as long as the loop borrows it.
SendersAlive == 1 + Cardinality({c \in Callers : cpc[c] # "idle"})
ChannelClosed == SendersAlive = 0

\* lines 53-55: receiver.recv().await: a message starts the next pass, None (closed
\* and empty) ends the loop.
LoopRecv ==
    /\ lpc = "recv"
    /\ chan > 0 \/ ChannelClosed
    /\ IF chan > 0
         THEN /\ chan' = chan - 1
              /\ lpc' = "len"
         ELSE /\ lpc' = "stopped"
              /\ UNCHANGED chan
    /\ UNCHANGED <<connections, qlock, calls, failures, need, lconn, cpc, ret, issued>>
    /\ UNCHANGED <<handed, passes, signals>>
    /\ UNCHANGED streamVars

(***************************************************************************)
(* get_connection                                                          *)
(***************************************************************************)
\* A task calls pool.get_connection().
Acquire(c) ==
    /\ cpc[c] = "idle"
    /\ issued < MaxAcquires
    /\ issued' = issued + 1
    /\ cpc' = [cpc EXCEPT ![c] = "pop"]
    /\ ret' = [ret EXCEPT ![c] = NoRet]
    /\ UNCHANGED <<connections, qlock, chan, calls, failures, lpc, need, lconn>>
    /\ UNCHANGED <<handed, passes, signals>>
    /\ UNCHANGED streamVars

\* Whether the guard of line 74 is still held while the None arm awaits
\* new_connection: a temporary of a match scrutinee lives to the end of the match.
ScrutineeGuardHeld == TRUE

\* A variant of Popped that takes the back of the queue (pop_back).
PoppedBack(q) == q[Len(q)]

\* The element pop_front of line 74 gives for a non-empty queue: its front.
Popped(q) == Head(q)

\* A variant of AfterPop that reads the front and leaves it in the queue (front).
AfterPeek(q) == q

\* The queue pop_front of line 74 leaves behind.
AfterPop(q) == Tail(q)

\* lines 74-76: lock, pop_front; Some(conn) => Ok(conn), None => new_connection().
GetPop(c) ==
    /\ cpc[c] = "pop"
    /\ qlock = {}
    /\ IF connections # <<>>
         THEN /\ ret' = [ret EXCEPT ![c] = OkRet(Popped(connections))]
              /\ connections' = AfterPop(connections)
              /\ cpc' = [cpc EXCEPT ![c] = "size"]
              /\ UNCHANGED <<qlock, calls>>
         ELSE /\ calls' = calls + 1
              /\ ret' = [ret EXCEPT ![c] = Pending(Conn(c, calls + 1))]
              /\ qlock' = IF ScrutineeGuardHeld THEN {c} ELSE {}
              /\ cpc' = [cpc EXCEPT ![c] = "factory"]
              /\ UNCHANGED connections
    /\ UNCHANGED <<chan, failures, lpc, need, lconn, issued>>
    /\ UNCHANGED <<handed, passes, signals>>
    /\ UNCHANGED streamVars

\* A variant of GuardDropped in which the guard of line 74 outlives its statement.
GuardKept(c) == qlock

\* The holders of the queue lock once the statement of line 74 has ended: the
\* guard, a temporary of that statement, is dropped with it.
GuardDropped(c) == qlock \ {c}

\* lines 61-70 from line 76: the connector returned Ok(conn); the statement of
\* line 74 ends and its guard drops.
GetFactoryOk(c) ==
    /\ cpc[c] = "factory"
    /\ ret' = [ret EXCEPT ![c] = OkRet(ret[c][2])]
    /\ qlock' = GuardDropped(c)
    /\ cpc' = [cpc EXCEPT ![c] = "size"]
    /\ UNCHANGED <<connections, chan, calls, failures, lpc, need, lconn, issued>>
    /\ UNCHANGED <<handed, passes, signals>>
    /\ UNCHANGED streamVars

\* A variant of AfterFactoryErr that returns the error at once (`?` on line 76).
AfterFactoryErrReturn == "idle"

\* Where get_connection goes with the connector's Err(e): `ret` is only bound at
\* line 74, the call goes on with lines 78-80.
AfterFactoryErr == "size"

\* lines 63-66 from line 76: the connector returned Err(e).
GetFactoryErr(c) ==
    /\ cpc[c] = "factory"
    /\ failures < MaxFailures
    /\ failures' = failures + 1
    /\ ret' = [ret EXCEPT ![c] = ErrRet(ret[c][2])]
    /\ qlock' = GuardDropped(c)
    /\ cpc' = [cpc EXCEPT ![c] = AfterFactoryErr]
    /\ UNCHANGED <<connections, chan, calls, lpc, need, lconn, issued>>
    /\ UNCHANGED <<handed, passes, signals>>
    /\ UNCHANGED streamVars

\* line 78: let size = self.size().await  (lines 91-93: lock, len).
GetSize(c) ==
    /\ cpc[c] = "size"
    /\ qlock = {}
    /\ cpc' = [cpc EXCEPT ![c] = "send"]
    /\ UNCHANGED <<connections, qlock, chan, calls, failures, lpc, need, lconn, ret,
                   issued>>
    /\ UNCHANGED <<handed, passes, signals>>
    /\ UNCHANGED streamVars

\* Whether sender.send(()).await of line 80 can complete: async_std's bounded
\* channel makes send wait while the channel holds its capacity of messages.
SendReady == chan < ChannelCap

\* lines 80-87: the send completes, then ret is returned.
GetSend(c) ==
    /\ cpc[c] = "send"
    /\ SendReady
    /\ chan' = IF chan < ChannelCap THEN chan + 1 ELSE chan
    /\ signals' = signals + 1
    /\ handed' = IF ret[c][1] = "Ok" /\ ret[c][2][1] = LoopOwner
                  THEN handed \cup {ret[c][2]}
                  ELSE handed
    /\ cpc' = [cpc EXCEPT ![c] = "idle"]
    /\ UNCHANGED <<connections, qlock, calls, failures, lpc, need, lconn, ret, issued>>
    /\ UNCHANGED passes
    /\ UNCHANGED streamVars

LoopNext ==
    \/ SpawnLoop
    \/ LoopLen
    \/ LoopCall
    \/ LoopFactoryOk
    \/ LoopFactoryErr
    \/ LoopPush
    \/ LoopPassDone
    \/ LoopRecv

\* The steps of a get_connection call already issued.
CallerStep(c) ==
    \/ GetPop(c)
    \/ GetFactoryOk(c)
    \/ GetFactoryErr(c)
    \/ GetSize(c)
    \/ GetSend(c)

CallerNext(c) == Acquire(c) \/ CallerStep(c)

PoolNext == LoopNext \/ \E c \in Callers : CallerNext(c)

\* The pool with a connector that never fails.
LoopNextNoFail ==
    \/ SpawnLoop
    \/ LoopLen
    \/ LoopCall
    \/ LoopFactoryOk
    \/ LoopPush
    \/ LoopPassDone
    \/ LoopRecv

CallerStepNoFail(c) ==
    \/ GetPop(c)
    \/ GetFactoryOk(c)
    \/ GetSize(c)
    \/ GetSend(c)

PoolNextNoFail == LoopNextNoFail \/ \E c \in Callers : (Acquire(c) \/ CallerStepNoFail(c))

(***************************************************************************)
(* SSTcpStream                                                             *)
(***************************************************************************)

\* Before SSTcpStream::connect or SSTcpStream::accept is called: no handle
\* exists and nothing has been written. connect is given the transport's address
\* and a liveness flag its caller owns, accept an accepted TcpStream.
StreamInit ==
    /\ mode \in {"connect", "accept"}
    /\ stage = "new"
    /\ addrLeft = 0
    /\ tx = <<>>
    /\ hsEof = FALSE
    /\ server_alive = TRUE
    /\ rs_state = "WaitIv"
    /\ rs_pos = 0
    /\ rsLock = {}
    /\ handles = {}
    /\ dec = [h \in Handles |-> 0]
    /\ readers = 0
    /\ hpc = [h \in Handles |-> "idle"]
    /\ op = [h \in Handles |-> "none"]
    /\ res = [h \in Handles |-> "None"]
    /\ pend = [h \in Handles |-> "none"]
    /\ rx = 0
    /\ peerSent = 0
    /\ rstate = "open"
    /\ wready = TRUE

Min(a, b) == IF a <= b THEN a ELSE b

\* ---- the constructors ----
\* The transport's write side t after the EncryptedWriter's poll_write (aead.rs,
\* stream.rs) has taken n bytes of kind tag: the local IV/salt goes to the
\* transport once, ahead of the first bytes.
WriterEmit(t, n, tag) ==
    t \o (IF t = <<>> THEN <<"iv">> ELSE <<>>) \o [i \in 1..n |-> tag]

\* What a correctly keyed peer's DecryptedReader (aead.rs, stream.rs) gives for
\* the bytes t of the transport: the plaintext that follows the IV/salt.
PeerPlaintext(t) == IF t = <<>> THEN <<>> ELSE Tail(t)

ConnectErrors == {"ErrConnect", "ErrBrokenPipe", "ErrIo"}

\* line 71: TcpStream::connect(server).await succeeded; lines 72-113 build the
\* stream (dec: None, WaitIv(vec![0; prev_len], 0, ..), the caller's flag) and
\* line 115 fills addr_buf.
ConnectTcp ==
    /\ mode = "connect"
    /\ stage = "new"
    /\ stage' = "addr"
    /\ addrLeft' = AddrLen
    /\ rs_state' = "WaitIv"
    /\ rs_pos' = 0
    /\ dec' = [h \in Handles |-> 0]
    /\ UNCHANGED <<mode, tx, hsEof, server_alive, rsLock, handles, readers, hpc, op, res,
                   pend, rx, peerSent, rstate, wready>>
    /\ UNCHANGED poolVars

\* line 71: TcpStream::connect(server).await? returned Err.
ConnectTcpErr ==
    /\ mode = "connect"
    /\ stage = "new"
    /\ stage' = "ErrConnect"
    /\ UNCHANGED <<mode, addrLeft, tx, hsEof, server_alive, rs_state, rs_pos, rsLock,
                   handles, dec, readers, hpc, op, res, pend, rx, peerSent, rstate, wready>>
    /\ UNCHANGED poolVars

\* line 117: one turn of ss_stream.write_all(&addr_buf).await?: poll_write
\* (lines 264-273) fails on a dead flag or a failed transport, else the writer
\* takes n of the bytes left. (A Pending turn changes nothing.)
ConnectWriteAddr ==
    /\ stage = "addr"
    /\ addrLeft > 0
    /\ \/ /\ ~server_alive
          /\ stage' = "ErrBrokenPipe"
          /\ UNCHANGED <<addrLeft, tx>>
       \/ /\ server_alive
          /\ rstate = "err"
          /\ stage' = "ErrIo"
          /\ UNCHANGED <<addrLeft, tx>>
       \/ /\ server_alive
          /\ rstate # "err"
          /\ wready
          /\ \E n \in 1..addrLeft :
                /\ tx' = WriterEmit(tx, n, "addr")
                /\ addrLeft' = addrLeft - n
          /\ UNCHANGED stage
    /\ UNCHANGED <<mode, hsEof, server_alive, rs_state, rs_pos, rsLock, handles, dec,
                   readers, hpc, op, res, pend, rx, peerSent, rstate, wready>>
    /\ UNCHANGED poolVars

\* A variant of AddrWritten that returns the stream without waiting for the
\* address (a write that is not awaited to its end).
AddrWrittenEarly == TRUE

\* write_all of line 117 has returned Ok: all of addr_buf was taken.
AddrWritten == addrLeft = 0

\* line 118: Ok(ss_stream).
ConnectReturn ==
    /\ stage = "addr"
    /\ AddrWritten
    /\ stage' = "Ok"
    /\ handles' = {1}
    /\ UNCHANGED <<mode, addrLeft, tx, hsEof, server_alive, rs_state, rs_pos, rsLock, dec,
                   readers, hpc, op, res, pend, rx, peerSent, rstate, wready>>
    /\ UNCHANGED poolVars

\* lines 121-164: accept builds the stream around the given TcpStream (dec: None,
\* WaitIv(vec![0; prev_len], 0, ..), server_alive: a new flag set true) and
\* returns it; it writes nothing.
Accept ==
    /\ mode = "accept"
    /\ stage = "new"
    /\ stage' = "Ok"
    /\ handles' = {1}
    /\ rs_state' = "WaitIv"
    /\ rs_pos' = 0
    /\ dec' = [h \in Handles |-> 0]
    /\ server_alive' = TRUE
    /\ UNCHANGED <<mode, addrLeft, tx, hsEof, rsLock, readers, hpc, op, res, pend, rx,
                   peerSent, rstate, wready>>
    /\ UNCHANGED poolVars

ConstructNext ==
    \/ ConnectTcp
    \/ ConnectTcpErr
    \/ ConnectWriteAddr
    \/ ConnectReturn
    \/ Accept

\* ---- the environment: the peer, the network, the owner of the flag ----
\* The TcpStream exists: accept is given one, connect has one from line 71 until
\* it fails.
TransportUp == mode = "accept" \/ stage \in {"addr", "Ok"}

PeerSend ==
    /\ TransportUp
    /\ rstate = "open"
    /\ peerSent < IvLen + MaxPayload
    /\ rx' = rx + 1
    /\ peerSent' = peerSent + 1
    /\ UNCHANGED <<mode, stage, addrLeft, tx, hsEof, server_alive, rs_state, rs_pos, rsLock, handles, dec, readers,
                   hpc, op, res, pend, rstate, wready>>
    /\ UNCHANGED poolVars

PeerClose ==
    /\ TransportUp
    /\ rstate = "open"
    /\ rstate' = "eof"
    /\ UNCHANGED <<mode, stage, addrLeft, tx, hsEof, server_alive, rs_state, rs_pos, rsLock, handles, dec, readers,
                   hpc, op, res, pend, rx, peerSent, wready>>
    /\ UNCHANGED poolVars

TransportFail ==
    /\ TransportUp
    /\ rstate = "open"
    /\ rstate' = "err"
    /\ UNCHANGED <<mode, stage, addrLeft, tx, hsEof, server_alive, rs_state, rs_pos, rsLock, handles, dec, readers,
                   hpc, op, res, pend, rx, peerSent, wready>>
    /\ UNCHANGED poolVars

WriteReadiness ==
    /\ TransportUp
    /\ wready' = ~wready
    /\ UNCHANGED <<mode, stage, addrLeft, tx, hsEof, server_alive, rs_state, rs_pos, rsLock, handles, dec, readers,
                   hpc, op, res, pend, rx, peerSent, rstate>>
    /\ UNCHANGED poolVars

\* A variant of FlagShared in which accept, too, takes its flag from outside.
FlagSharedAlways == TRUE

\* Whether anything outside the stream holds the liveness flag: connect is given
\* its caller's Arc<AtomicBool> (lines 67, 112); accept makes its own with
\* Arc::new (line 162) in a private field.
FlagShared == mode = "connect"

\* The owner of the Arc<AtomicBool> given to connect stores into it; the stream
\* itself only loads it.
SetServerAlive(b) ==
    /\ FlagShared
    /\ server_alive # b
    /\ server_alive' = b
    /\ UNCHANGED <<mode, stage, addrLeft, tx, hsEof, rs_state, rs_pos, rsLock, handles, dec, readers, hpc, op, res,
                   pend, rx, peerSent, rstate, wready>>
    /\ UNCHANGED poolVars

\* #[derive(Clone)], line 53: the clone shares enc, read_status and server_alive
\* and copies the Option dec as it is now.
Clone(h, g) ==
    /\ h \in handles
    /\ g \notin handles
    /\ hpc[h] = "idle"
    /\ handles' = handles \cup {g}
    /\ dec' = [dec EXCEPT ![g] = dec[h]]
    /\ UNCHANGED <<mode, stage, addrLeft, tx, hsEof, server_alive, rs_state, rs_pos, rsLock, readers, hpc, op, res,
                   pend, rx, peerSent, rstate, wready>>
    /\ UNCHANGED poolVars

\* ---- poll_read, poll_write, poll_flush, poll_close ----
\* A variant of LivenessGate that guards only the data path.
LivenessGateDataOnly(o) == o \in {"read", "write"}

\* Whether poll_<o> starts with `if !self.server_alive.load(SeqCst)`:
\* lines 255, 269, 277, 285.
LivenessGate(o) == o \in {"read", "write", "flush", "close"}

\* The transport has woken the task suspended in operation o.
Woken(o) ==
    IF o = "read" THEN rx > 0 \/ rstate # "open" ELSE wready \/ rstate = "err"

\* The entry of poll_<o>: lines 250-259, 264-273, 276-281, 284-289.
Enter(h, o) ==
    /\ h \in handles
    /\ hpc[h] = "idle"
    /\ op' = [op EXCEPT ![h] = o]
    /\ pend' = [pend EXCEPT ![h] = "none"]
    /\ IF LivenessGate(o) /\ ~server_alive
         THEN /\ res' = [res EXCEPT ![h] = "BrokenPipe"]
              /\ UNCHANGED hpc
         ELSE /\ res' = [res EXCEPT ![h] = "None"]
              /\ hpc' = [hpc EXCEPT ![h] = o]
    /\ UNCHANGED <<mode, stage, addrLeft, tx, hsEof, server_alive, rs_state, rs_pos, rsLock, handles, dec, readers,
                   rx, peerSent, rstate, wready>>
    /\ UNCHANGED poolVars

\* A caller starts operation o on handle h: its first poll.
Poll(h, o) ==
    /\ pend[h] = "none"
    /\ Enter(h, o)

\* The task suspended in operation o is woken and polls again.
RePoll(h, o) ==
    /\ pend[h] = o
    /\ Woken(o)
    /\ Enter(h, o)

\* lines 172-174, 206-208: lock read_status; Established returns Ready(Ok(())).
HsEnter(h) ==
    /\ hpc[h] = "read"
    /\ rsLock = {}
    /\ IF rs_state = "WaitIv"
         THEN /\ rsLock' = {h}
              /\ hpc' = [hpc EXCEPT ![h] = "fill"]
         ELSE /\ hpc' = [hpc EXCEPT ![h] = "deleg"]
              /\ UNCHANGED rsLock
    /\ UNCHANGED <<mode, stage, addrLeft, tx, hsEof, server_alive, rs_state, rs_pos, handles, dec, readers, op, res,
                   pend, rx, peerSent, rstate, wready>>
    /\ UNCHANGED poolVars

\* A variant of OnTransportPending that takes "no byte yet" for the end of stream.
OnTransportPendingAsEof == "UnexpectedEof"

\* What the handshake drive returns when the transport's poll_read is Pending:
\* line 176, ready!(..) returns Poll::Pending.
OnTransportPending == "Pending"

\* A variant of HandshakeFull that is content with a partly filled buffer.
HandshakePartlyFull == rs_pos > 0

\* line 175: the loop `while *pos < buf.len()` is over.
HandshakeFull == rs_pos >= IvLen

\* A variant of FillRoom that hands the whole buffer to the transport (&mut buf[..]).
FillRoomWholeBuf == IvLen

\* The room the transport's poll_read is given at line 176: &mut buf[*pos..].
FillRoom == IvLen - rs_pos

\* A variant of OnTransportEof that takes a read of 0 bytes for "no byte yet".
OnTransportEofAsPending == "Pending"

\* What the handshake drive returns when the transport's poll_read gives 0
\* bytes: lines 177-180, ErrorKind::UnexpectedEof.
OnTransportEof == "UnexpectedEof"

\* lines 175-182: one turn of the fill loop: the transport's poll_read on
\* buf[pos..] gives n > 0 bytes, 0 bytes (the peer closed), an error, or Pending.
HsFill(h) ==
    /\ hpc[h] = "fill"
    /\ ~HandshakeFull
    /\ \/ /\ rx > 0
          /\ \E n \in 1..Min(FillRoom, rx) :
                /\ rs_pos' = rs_pos + n
                /\ rx' = rx - n
          /\ UNCHANGED <<hpc, res, pend, rsLock, hsEof>>
       \/ /\ rx = 0
          /\ rstate = "eof"
          /\ res' = [res EXCEPT ![h] = OnTransportEof]
          /\ hsEof' = TRUE
          /\ hpc' = [hpc EXCEPT ![h] = "idle"]
          /\ rsLock' = {}
          /\ UNCHANGED <<rs_pos, rx, pend>>
       \/ /\ rx = 0
          /\ rstate = "err"
          /\ res' = [res EXCEPT ![h] = "IoError"]
          /\ hpc' = [hpc EXCEPT ![h] = "idle"]
          /\ rsLock' = {}
          /\ UNCHANGED <<rs_pos, rx, pend, hsEof>>
       \/ /\ rx = 0
          /\ rstate = "open"
          /\ res' = [res EXCEPT ![h] = OnTransportPending]
          /\ pend' = [pend EXCEPT ![h] =
                         IF OnTransportPending = "Pending" THEN "read" ELSE "none"]
          /\ hpc' = [hpc EXCEPT ![h] = "idle"]
          /\ rsLock' = {}
          /\ UNCHANGED <<rs_pos, rx, hsEof>>
    /\ UNCHANGED <<mode, stage, addrLeft, tx, server_alive, rs_state, handles, dec, readers,
                   op, peerSent, rstate, wready>>
    /\ UNCHANGED poolVars

\* lines 184-205: the buffer is full: build the DecryptedReader, store it in
\* self.dec; the guard of line 173 drops at the end of the if let.
HsBuild(h) ==
    /\ hpc[h] = "fill"
    /\ HandshakeFull
    /\ readers' = readers + 1
    /\ dec' = [dec EXCEPT ![h] = readers + 1]
    /\ rsLock' = {}
    /\ hpc' = [hpc EXCEPT ![h] = "set"]
    /\ UNCHANGED <<mode, stage, addrLeft, tx, hsEof, server_alive, rs_state, rs_pos, handles, op, res, pend,
                   rx, peerSent, rstate, wready>>
    /\ UNCHANGED poolVars

\* line 210: *self.read_status.lock() = ReadStatus::Established.
HsSet(h) ==
    /\ hpc[h] = "set"
    /\ rsLock = {}
    /\ rs_state' = "Established"
    /\ hpc' = [hpc EXCEPT ![h] = "deleg"]
    /\ UNCHANGED <<mode, stage, addrLeft, tx, hsEof, server_alive, rs_pos, rsLock, handles, dec, readers, op, res,
                   pend, rx, peerSent, rstate, wready>>
    /\ UNCHANGED poolVars

\* The DecryptedReader's poll_read (aead.rs, stream.rs): plaintext for the bytes
\* the transport holds, 0 at the end of the stream, the transport's error, or
\* Pending.
ReaderPoll(h) ==
    /\ \/ /\ rx > 0
          /\ \E n \in 1..rx : rx' = rx - n
          /\ res' = [res EXCEPT ![h] = "Ok"]
          /\ UNCHANGED pend
       \/ /\ rx = 0
          /\ rstate = "eof"
          /\ res' = [res EXCEPT ![h] = "Eof"]
          /\ UNCHANGED <<rx, pend>>
       \/ /\ rx = 0
          /\ rstate = "err"
          /\ res' = [res EXCEPT ![h] = "IoError"]
          /\ UNCHANGED <<rx, pend>>
       \/ /\ rx = 0
          /\ rstate = "open"
          /\ res' = [res EXCEPT ![h] = "Pending"]
          /\ pend' = [pend EXCEPT ![h] = "read"]
          /\ UNCHANGED rx

\* lines 222-225: this.dec.as_ref().unwrap() and the reader's poll_read.
Delegate(h) ==
    /\ hpc[h] = "deleg"
    /\ dec[h] # 0
    /\ ReaderPoll(h)
    /\ hpc' = [hpc EXCEPT ![h] = "idle"]
    /\ UNCHANGED <<mode, stage, addrLeft, tx, hsEof, server_alive, rs_state, rs_pos, rsLock, handles, dec, readers,
                   op, peerSent, rstate, wready>>
    /\ UNCHANGED poolVars

\* line 222: unwrap() on a dec that is None panics; the task is gone.
DelegatePanic(h) ==
    /\ hpc[h] = "deleg"
    /\ dec[h] = 0
    /\ res' = [res EXCEPT ![h] = "Panic"]
    /\ hpc' = [hpc EXCEPT ![h] = "panicked"]
    /\ UNCHANGED <<mode, stage, addrLeft, tx, hsEof, server_alive, rs_state, rs_pos, rsLock, handles, dec, readers,
                   op, pend, rx, peerSent, rstate, wready>>
    /\ UNCHANGED poolVars

\* The data writes recorded in t.
DataWritten(t) == Cardinality({i \in 1..Len(t) : t[i] = "data"})

\* A variant of WriteBlocked in which the write path waits for the read_status lock.
WriteBlockedByHandshake == rsLock # {}

\* Whether a lock of the read path keeps the write path waiting: lines 233-235
\* lock enc only, lines 240-246 lock nothing.
WriteBlocked == FALSE

\* lines 228-246: priv_poll_write locks enc and polls the EncryptedWriter, which
\* writes to the TcpStream and is Pending while the socket takes no bytes;
\* priv_poll_flush and priv_poll_close poll the TcpStream, whose flush and close
\* do not wait. None touches read_status or dec.
WriteSide(h) ==
    /\ hpc[h] \in {"write", "flush", "close"}
    /\ ~WriteBlocked
    /\ \/ /\ rstate = "err"
          /\ res' = [res EXCEPT ![h] = "IoError"]
          /\ UNCHANGED <<pend, tx>>
       \/ /\ rstate # "err"
          /\ wready \/ hpc[h] # "write"
          /\ res' = [res EXCEPT ![h] = "Ok"]
          /\ tx' = IF hpc[h] = "write" /\ DataWritten(tx) < MaxData
                     THEN WriterEmit(tx, 1, "data")
                     ELSE tx
          /\ UNCHANGED pend
       \/ /\ rstate # "err"
          /\ ~wready
          /\ hpc[h] = "write"
          /\ res' = [res EXCEPT ![h] = "Pending"]
          /\ pend' = [pend EXCEPT ![h] = "write"]
          /\ UNCHANGED tx
    /\ hpc' = [hpc EXCEPT ![h] = "idle"]
    /\ UNCHANGED <<mode, stage, addrLeft, hsEof, server_alive, rs_state, rs_pos, rsLock, handles, dec, readers,
                   op, rx, peerSent, rstate, wready>>
    /\ UNCHANGED poolVars

\* The steps of a poll that has passed its entry.
PollStep(h) ==
    \/ HsEnter(h)
    \/ HsFill(h)
    \/ HsBuild(h)
    \/ HsSet(h)
    \/ Delegate(h)
    \/ DelegatePanic(h)
    \/ WriteSide(h)

EnvNext ==
    \/ PeerSend
    \/ PeerClose
    \/ TransportFail
    \/ WriteReadiness
    \/ \E b \in BOOLEAN : SetServerAlive(b)

StreamNext ==
    \/ ConstructNext
    \/ EnvNext
    \/ \E h, g \in Handles : Clone(h, g)
    \/ \E h \in Handles : \E o \in Ops : Poll(h, o) \/ RePoll(h, o)
    \/ \E h \in Handles : PollStep(h)


vars == <<poolVars, streamVars>>

Init == PoolInit /\ StreamInit

Next == PoolNext \/ StreamNext

Spec == Init /\ [][Next]_vars

\* The pool alone; its connector builds its streams with SSTcpStream::connect.
PoolOnlyInit == Init /\ mode = "connect"

PoolSpec == PoolOnlyInit /\ [][PoolNext]_vars

StreamSpec == Init /\ [][StreamNext]_vars

\* The executor runs every spawned task that can take a step, and every connector
\* call returns: the refill task and the issued get_connection calls are weakly fair.
\* Whether and when get_connection is called is left to the callers.
PoolFairSpec ==
    /\ PoolOnlyInit
    /\ [][PoolNext]_vars
    /\ WF_vars(LoopNext)
    /\ \A c \in Callers : WF_vars(CallerStep(c))

PoolNoFailFairSpec ==
    /\ PoolOnlyInit
    /\ [][PoolNextNoFail]_vars
    /\ WF_vars(LoopNextNoFail)
    /\ \A c \in Callers : WF_vars(CallerStepNoFail(c))

\* The executor runs a poll to its end and polls a suspended operation again once
\* the transport has woken it. What the peer, the network and the owner of the
\* liveness flag do is left open.
StreamFairSpec ==
    /\ Init
    /\ [][StreamNext]_vars
    /\ \A h \in Handles : WF_vars(PollStep(h) \/ \E o \in Ops : RePoll(h, o))

(***************************************************************************)
(* Properties of the Pool                                                  *)
(***************************************************************************)

\* C1: in every reachable state, under any interleaving of get_connection calls
\* with the refill loop and any pattern of connector successes and failures, the
\* idle queue holds at most max_idle streams.
IdleNeverExceedsMaxIdle == Len(connections) <= MaxIdle

\* C1 witness: the queue is full after a pass that ran while a get_connection
\* call was being served and a connector call had failed.
IdleFullWitness ==
    /\ Len(connections) = MaxIdle
    /\ issued > 0
    /\ failures > 0
    /\ lpc = "recv"

RefillsToMaxIdle ==
    /\ <>[](Len(connections) = MaxIdle)
    /\ [][(Len(connections) = MaxIdle /\ Len(connections') # MaxIdle)
              => \E c \in Callers : GetPop(c)]_vars

\* C4 witness: a stream made by the loop was handed out and the queue is full
\* again, the loop waiting for the next signal.
RefilledWitness ==
    /\ Len(connections) = MaxIdle
    /\ lpc = "recv"
    /\ chan = 0
    /\ \E c \in Callers : cpc[c] = "idle" /\ ret[c][1] = "Ok" /\ ret[c][2][1] = LoopOwner

\* C8: a get_connection call at its send never waits: whatever the channel
\* holds, the send of line 80 can complete at once.
SendNeverWaits == \A c \in Callers : cpc[c] = "send" => ENABLED GetSend(c)

\* C9: a connector failure inside the refill loop is skipped: the step that
\* takes it leaves the loop in its for loop with the remaining attempts, the queue
\* and every caller's result untouched; no caller's error comes from a call of the
\* loop; and the loop stops only when the channel is closed.
RefillFailureIsLocal ==
    /\ [](lpc = "stopped" => ChannelClosed)
    /\ [](\A c \in Callers : ret[c][1] = "Err" => ret[c][2][1] = c)
    /\ [][(lpc = "factory" /\ lpc' # "factory" /\ lpc' # "push")
              => (lpc' = "for" /\ need' = need /\ connections' = connections
                  /\ ret' = ret /\ cpc' = cpc)]_vars

\* C9 witness: with no get_connection call issued, one creation of the first
\* pass failed and the pass went on: the loop waits with max_idle - 1 streams.
RefillFailureWitness ==
    /\ issued = 0
    /\ failures = 1
    /\ lpc = "recv"
    /\ Len(connections) = MaxIdle - 1

\* C12: the queue changes only by the loop's push_back of the stream its own
\* connector call has just produced (a stream that is neither queued nor handed
\* out) or by a pop; no queued stream is queued twice, has been returned by
\* get_connection, or is the result of a call in progress; and a stream returned
\* by get_connection has not been returned before, to this caller or another: a
\* popped one is not among those handed out, and one made for the caller carries
\* the number of a connector call started after every stream that exists.
QueueOnlyFreshStreams ==
    /\ [](/\ \A i \in 1..Len(connections) : connections[i][2] <= calls
          /\ \A x \in handed : x[2] <= calls
          /\ lconn # NoConn => lconn[2] <= calls
          /\ \A c \in Callers : ret[c][1] # "None" => ret[c][2][2] <= calls)
    /\ [][\A c \in Callers :
             (GetPop(c) /\ connections = <<>>) => ret'[c][2] = Conn(c, calls + 1)]_vars
    /\ [](\A i \in 1..Len(connections) :
            /\ connections[i][1] = LoopOwner
            /\ connections[i] \notin handed
            /\ \A j \in 1..Len(connections) : connections[j] = connections[i] => j = i
            /\ \A c \in Callers : ret[c][1] # "None" => ret[c][2] # connections[i])
    /\ [](\A c, d \in Callers :
            (c # d /\ ret[c][1] = "Ok" /\ ret[d][1] = "Ok") => ret[c][2] # ret[d][2])
    /\ [][connections' # connections
            => \/ /\ LoopPush
                  /\ connections' = Append(connections, lconn)
                  /\ lconn = Conn(LoopOwner, lconn[2])
                  /\ lconn \notin handed
                  /\ \A i \in 1..Len(connections) : connections[i] # lconn
               \/ /\ \E c \in Callers : GetPop(c)
                  /\ connections' = Tail(connections)]_vars
    /\ [][\A c \in Callers :
             (GetSend(c) /\ ret[c][1] = "Ok") => ret[c][2] \notin handed]_vars

\* C12 witness: both callers have been handed a stream popped from the queue,
\* two different streams, and the loop has refilled the queue since.
HandedOnceWitness ==
    /\ Cardinality(handed) = 2
    /\ \A c \in Callers : ret[c][1] = "Ok" /\ ret[c][2] \in handed
    /\ Len(connections) = MaxIdle
    /\ \A c \in Callers : cpc[c] = "idle"

\* C16: every refill pass but the first has taken a signal of its own from the
\* channel, so at most 1 + (signals sent) passes are ever started; the loop calls
\* the connector only inside a pass; and while it waits at recv it calls no
\* connector and the queue changes only by a pop of get_connection.
RefillOnlyOnSignal ==
    /\ [](passes <= 1 + signals - chan)
    /\ [](passes <= 1 + signals)
    /\ [][passes' # passes
            => /\ passes' = passes + 1
               /\ lpc = "len"
               /\ (passes = 0 \/ signals - chan >= passes)]_vars
    /\ [][(lconn' # lconn /\ lconn' # NoConn)
            => (lpc = "for" /\ passes >= 1 /\ lconn' = Conn(LoopOwner, calls'))]_vars
    /\ [][lpc = "recv"
            => /\ lconn' = lconn
               /\ need' = need
               /\ connections' # connections => \E c \in Callers : GetPop(c)
               /\ calls' # calls => \E c \in Callers : GetPop(c)]_vars

\* C16 witness: every get_connection call has sent its signal, each signal has
\* started a pass of its own, and the loop waits again with the channel empty.
PassPerSignalWitness ==
    /\ signals = MaxAcquires
    /\ passes = 1 + MaxAcquires
    /\ chan = 0
    /\ lpc = "recv"

\* C17: a get_connection call that finds the queue non-empty takes its front,
\* which is the stream pushed earliest (streams sit in the queue in the order of
\* their connector calls), and starts no connector call; one that finds it empty
\* starts one connector call, makes no other while that one runs, returns what
\* that call gave, and the stream is never pushed into the queue.
PopFrontElseOneCall ==
    /\ [](\A i, j \in 1..Len(connections) :
            i < j => connections[i][2] < connections[j][2])
    /\ [](\A i \in 1..Len(connections) : connections[i][1] \notin Callers)
    /\ [][\A c \in Callers :
             (GetPop(c) /\ connections # <<>>)
                 => /\ ret'[c] = OkRet(connections[1])
                    /\ \A i \in 1..Len(connections) : connections[1][2] <= connections[i][2]
                    /\ connections' = Tail(connections)
                    /\ calls' = calls
                    /\ cpc'[c] = "size"]_vars
    /\ [][\A c \in Callers :
             (GetPop(c) /\ connections = <<>>)
                 => /\ calls' = calls + 1
                    /\ ret'[c] = Pending(Conn(c, calls'))
                    /\ connections' = connections]_vars
    /\ [][\A c \in Callers :
             cpc[c] \in {"factory", "size", "send"}
                 => /\ ret'[c][2] = ret[c][2]
                    /\ (calls' # calls => cpc'[c] = cpc[c])]_vars
    /\ [](\A c \in Callers :
            (cpc[c] = "idle" /\ ret[c][1] = "Ok" /\ ret[c][2][1] = c)
                => \A i \in 1..Len(connections) : connections[i] # ret[c][2])

\* C17 witness: with two streams in the queue, one call was given the earlier
\* one and left the later one queued; the other call found the queue empty
\* before that and returned the stream of its own connector call.
FrontPoppedWitness ==
    \E c, d \in Callers :
        /\ cpc[c] = "size" /\ ret[c][1] = "Ok" /\ ret[c][2][1] = LoopOwner
        /\ Len(connections) = MaxIdle - 1
        /\ connections[1][2] > ret[c][2][2]
        /\ cpc[d] = "idle" /\ ret[d][1] = "Ok" /\ ret[d][2][1] = d

\* C18: when the connector call of a get_connection that found the queue empty
\* fails, the call keeps that error as its result, goes on to lines 78-80 without
\* another connector call and without touching the queue, and returns only by
\* completing the send of its signal, as a successful call does.
FactoryErrorReturned ==
    /\ [][\A c \in Callers :
             GetFactoryErr(c)
                 => /\ ret[c][1] = "Pending"
                    /\ ret[c][2][1] = c
                    /\ ret'[c] = ErrRet(ret[c][2])
                    /\ connections' = connections
                    /\ calls' = calls
                    /\ cpc'[c] = "size"]_vars
    /\ [][\A c \in Callers :
             (cpc[c] \in {"size", "send"} /\ ret[c][1] = "Err")
                 => /\ ret'[c] = ret[c]
                    /\ cpc'[c] # cpc[c] => (calls' = calls /\ connections' = connections)
                    /\ cpc'[c] \in {"size", "send", "idle"}]_vars
    /\ [][\A c \in Callers :
             (cpc[c] # "idle" /\ cpc'[c] = "idle")
                 => /\ cpc[c] = "send"
                    /\ ret[c][1] \in {"Ok", "Err"}
                    /\ ret'[c] = ret[c]
                    /\ signals' = signals + 1
                    /\ chan' = chan + 1]_vars

\* C18 witness: the only call issued found the queue empty, its connector call
\* failed, and it has returned that error with its signal in the channel and the
\* queue still empty.
ErrorReturnedWitness ==
    \E c \in Callers :
        /\ issued = 1
        /\ cpc[c] = "idle"
        /\ ret[c] = ErrRet(Conn(c, 1))
        /\ calls = 1
        /\ signals = 1
        /\ chan = 1
        /\ connections = <<>>

\* C14: the queue lock is held for one push, pop or len only: no get_connection
\* call and no refill pass holds it while a connector call of its own is in
\* progress, so nobody waits on the lock for a connector call to finish.
QueueLockNeverAcrossFactory ==
    /\ \A c \in Callers : cpc[c] = "factory" => c \notin qlock
    /\ lpc = "factory" => LoopOwner \notin qlock

(***************************************************************************)
(* Properties of the SSTcpStream                                           *)
(***************************************************************************)

\* C2: a read, write, flush or close poll entered while the liveness flag is
\* false ends at once with BrokenPipe: it is not left suspended, takes no further
\* step, and leaves the transport, the handshake state, the fill count and the
\* readers as they were, whatever the handshake state is.
DeadStreamRejectsAll ==
    [][\A h \in Handles : \A o \in Ops :
          (Enter(h, o) /\ ~server_alive)
              => /\ res'[h] = "BrokenPipe"
                 /\ hpc'[h] = "idle"
                 /\ pend'[h] = "none"
                 /\ <<rx, peerSent, rstate, wready>>' = <<rx, peerSent, rstate, wready>>
                 /\ <<rs_state, rs_pos, rsLock, dec, readers>>'
                        = <<rs_state, rs_pos, rsLock, dec, readers>>]_vars

\* C2 witness: a read on a dead stream was rejected in the middle of the
\* handshake (WaitIv, the buffer partly filled).
DeadReadRejectedWitness ==
    \E h \in Handles :
        /\ res[h] = "BrokenPipe"
        /\ op[h] = "read"
        /\ hpc[h] = "idle"
        /\ ~server_alive
        /\ rs_state = "WaitIv"
        /\ rs_pos > 0
        /\ rs_pos < IvLen

\* C5: the handshake state changes only from WaitIv to Established, only by
\* line 210 of a read, only with the buffer full of bytes taken from the
\* transport; once it is Established it stays so and no reader is constructed.
HandshakeOnce ==
    /\ [](rs_state = "WaitIv" => rs_pos + rx = peerSent)
    /\ [][rs_state' # rs_state
              => /\ rs_state = "WaitIv"
                 /\ rs_state' = "Established"
                 /\ rs_pos = IvLen
                 /\ \E h \in Handles : HsSet(h) /\ op[h] = "read"]_vars
    /\ [][rs_state = "Established"
              => (rs_state' = "Established" /\ readers' = readers)]_vars

\* C5 witness: the stream is Established with the one reader the handshake
\* built, the payload has been read, and a further read attempt is suspended.
EstablishedRereadWitness ==
    /\ rs_state = "Established"
    /\ readers = 1
    /\ peerSent = IvLen + MaxPayload
    /\ rx = 0
    /\ \E h \in Handles : op[h] = "read" /\ res[h] = "Pending" /\ pend[h] = "read"

\* C6: whenever no handle is inside the handshake drive, every handle of the
\* stream has a DecryptedReader exactly if the handshake state is Established,
\* and a read that has passed the drive finds a reader.
ReaderIffEstablished ==
    (\A g \in handles : hpc[g] \notin {"fill", "set"})
        => \A h \in handles :
              /\ (dec[h] # 0) <=> (rs_state = "Established")
              /\ hpc[h] # "panicked"

\* C7: a turn of the fill loop that finds the transport open with no byte to
\* give ends the read attempt with Pending: no error, no reader, no plaintext, the
\* state still WaitIv and the fill count kept; the fill count changes only by the
\* bytes a fill turn takes from the transport, and never goes down.
ShortIvSuspends ==
    /\ [][\A h \in Handles :
             (HsFill(h) /\ rx = 0 /\ rstate = "open")
                 => /\ res'[h] = "Pending"
                    /\ pend'[h] = "read"
                    /\ hpc'[h] = "idle"
                    /\ rs_pos' = rs_pos
                    /\ rs_pos' < IvLen
                    /\ rs_state' = "WaitIv"
                    /\ dec' = dec
                    /\ readers' = readers]_vars
    /\ [][rs_pos' # rs_pos
             => /\ \E h \in Handles : HsFill(h)
                /\ rs_pos' > rs_pos
                /\ rs_pos' - rs_pos = rx - rx']_vars

\* C7 witness: a read is suspended in WaitIv with part of the IV received.
ShortIvWitness ==
    \E h \in Handles :
        /\ op[h] = "read"
        /\ res[h] = "Pending"
        /\ pend[h] = "read"
        /\ hpc[h] = "idle"
        /\ server_alive
        /\ rstate = "open"
        /\ rs_state = "WaitIv"
        /\ rs_pos > 0
        /\ rs_pos < IvLen

\* C10: an operation that is suspended while the liveness flag is false fails
\* with BrokenPipe (unless the flag is set alive again): it does not stay
\* suspended for ever.
DeadFailsPending ==
    \A h \in Handles :
        (pend[h] # "none" /\ ~server_alive) ~> (res[h] = "BrokenPipe" \/ server_alive)

\* C13 (as stated): a fill turn that finds the transport closed with the buffer
\* not full fails the read with UnexpectedEof, builds no reader and leaves the
\* state WaitIv; and once that has happened no read attempt goes back to the
\* transport for the handshake.
EofIsFatalNoRetry ==
    [][/\ \A h \in Handles :
             (HsFill(h) /\ rx = 0 /\ rstate = "eof")
                 => /\ res'[h] = "UnexpectedEof"
                    /\ rs_state' = "WaitIv"
                    /\ readers' = readers
                    /\ dec' = dec
       /\ hsEof => ~ \E h \in Handles : HsFill(h)]_vars

\* C13 (amended): a fill turn that finds the transport closed with the buffer
\* not full ends the read attempt with UnexpectedEof, without another turn,
\* builds no reader and leaves the state WaitIv and the fill count as they were;
\* from then on the stream stays in WaitIv without a reader, and every later read
\* attempt polls the transport again, finds it closed and fails the same way.
EofFailsEveryRead ==
    /\ [][\A h \in Handles :
             (HsFill(h) /\ rx = 0 /\ rstate = "eof")
                 => /\ res'[h] = "UnexpectedEof"
                    /\ hpc'[h] = "idle"
                    /\ pend'[h] = "none"
                    /\ rsLock' = {}
                    /\ rs_state' = "WaitIv"
                    /\ rs_pos' = rs_pos
                    /\ readers' = readers
                    /\ dec' = dec
                    /\ hsEof']_vars
    /\ [](hsEof => /\ rs_state = "WaitIv"
                   /\ rs_pos < IvLen
                   /\ readers = 0
                   /\ \A h \in Handles : dec[h] = 0
                   /\ rx = 0
                   /\ rstate = "eof")
    /\ [][hsEof' # hsEof => \E h \in Handles : HsFill(h) /\ rx = 0 /\ rstate = "eof"]_vars
    /\ [][\A h \in Handles :
             (hsEof /\ HsFill(h)) => (res'[h] = "UnexpectedEof" /\ rx' = rx)]_vars
    /\ [](\A h \in Handles : (hsEof /\ hpc[h] = "fill") => ENABLED HsFill(h))

\* C13 witness: the handshake has failed with UnexpectedEof after part of the
\* IV, and a later read attempt is inside the fill loop again, about to poll the
\* transport.
EofRetriedWitness ==
    \E h \in Handles :
        /\ hsEof
        /\ op[h] = "read"
        /\ hpc[h] = "fill"
        /\ rsLock = {h}
        /\ rs_pos > 0

\* C11: connect hands out the stream only with the local IV/salt and the whole
\* address descriptor written, in that order, and every data write comes after
\* them, so the peer's plaintext is the address descriptor followed by the data;
\* a failed TCP connect or address write ends connect with that error, after
\* which no handle ever exists.
ConnectAnnouncesFirst ==
    /\ [](mode = "connect"
            => /\ handles # {} => (stage = "Ok" /\ addrLeft = 0)
               /\ stage = "Ok" => Len(tx) >= 1 + AddrLen
               /\ \A i \in 1..Len(tx) :
                     tx[i] = IF i = 1 THEN "iv"
                             ELSE IF i <= 1 + AddrLen THEN "addr" ELSE "data"
               /\ \A i \in 1..Len(PeerPlaintext(tx)) :
                     PeerPlaintext(tx)[i] = IF i <= AddrLen THEN "addr" ELSE "data"
               /\ stage = "Ok" => Len(PeerPlaintext(tx)) = AddrLen + DataWritten(tx)
               /\ stage \in ConnectErrors => handles = {})
    /\ [][(ConnectWriteAddr /\ (~server_alive \/ rstate = "err"))
            => /\ stage' = IF ~server_alive THEN "ErrBrokenPipe" ELSE "ErrIo"
               /\ handles' = {}
               /\ tx' = tx]_vars
    /\ [][(stage \in ConnectErrors)
            => (stage' = stage /\ handles' = {} /\ tx' = tx)]_vars
    /\ [][(mode = "connect" /\ stage' # stage /\ stage' = "Ok")
            => (stage = "addr" /\ addrLeft = 0 /\ Len(tx) = 1 + AddrLen)]_vars

\* C11 witness: connect has returned the stream and a data write on it has
\* completed: the transport was given the IV/salt, the address descriptor and
\* then the data.
AnnouncedThenDataWitness ==
    \E h \in Handles :
        /\ mode = "connect"
        /\ stage = "Ok"
        /\ op[h] = "write" /\ res[h] = "Ok" /\ hpc[h] = "idle"
        /\ tx = <<"iv">> \o [i \in 1..AddrLen |-> "addr"] \o <<"data">>

\* C19: accept returns a stream in WaitIv with fill count 0, no reader and the
\* flag alive, and writes nothing: on an accepted stream the transport is
\* written only by a write of the stream's user; the liveness flag changes only
\* by a store of its outside owner, which an accepted stream does not have, so
\* its flag stays alive and none of its operations ends with BrokenPipe.
AcceptIsSilentAndAlive ==
    /\ [][Accept
            => /\ tx = <<>> /\ tx' = <<>>
               /\ handles' = {1}
               /\ rs_state' = "WaitIv"
               /\ rs_pos' = 0
               /\ \A h \in Handles : dec'[h] = 0
               /\ readers' = 0
               /\ server_alive']_vars
    /\ [][(mode = "accept" /\ tx' # tx)
            => \E h \in Handles : WriteSide(h) /\ op[h] = "write"]_vars
    /\ [][server_alive' # server_alive
            => (mode = "connect" /\ \E b \in BOOLEAN : SetServerAlive(b))]_vars
    /\ [](mode = "accept"
            => /\ server_alive
               /\ \A h \in Handles : res[h] # "BrokenPipe")

\* C19 witness: an accepted stream has finished its handshake and read the
\* peer's payload, and has written nothing: neither IV nor data is on the
\* transport.
AcceptedReadsFirstWitness ==
    \E h \in Handles :
        /\ mode = "accept"
        /\ stage = "Ok"
        /\ rs_state = "Established"
        /\ op[h] = "read" /\ res[h] = "Ok"
        /\ rx = 0 /\ peerSent = IvLen + MaxPayload
        /\ tx = <<>>

\* C15: a write that has passed the liveness check can always take its step,
\* whoever holds the read_status lock and whatever the handshake state is; the
\* step ends the poll with the writer's answer and leaves the handshake state,
\* the fill count, the read_status lock, the readers and the bytes the transport
\* holds for reading as they were.
WriteNeverGated ==
    /\ [](\A h \in Handles : hpc[h] = "write" => ENABLED WriteSide(h))
    /\ [][\A h \in Handles :
             (WriteSide(h) /\ hpc[h] = "write")
                 => /\ res'[h] \in {"Ok", "Pending", "IoError"}
                    /\ hpc'[h] = "idle"
                    /\ <<rs_state, rs_pos, rsLock, dec, readers>>'
                           = <<rs_state, rs_pos, rsLock, dec, readers>>
                    /\ <<rx, peerSent>>' = <<rx, peerSent>>]_vars

\* C15 witness: a write has completed on one handle in WaitIv while the other
\* handle is inside the fill loop of a read, holding the read_status lock with
\* the buffer partly filled.
WriteDuringHandshakeWitness ==
    \E h, g \in Handles :
        /\ op[h] = "write" /\ res[h] = "Ok" /\ hpc[h] = "idle"
        /\ hpc[g] = "fill" /\ rsLock = {g}
        /\ rs_state = "WaitIv"
        /\ rs_pos > 0 /\ rs_pos < IvLen

\* C20: the fill count never goes down and never passes the buffer length; until
\* a reader exists only the fill loop takes bytes from the transport, and it has
\* taken exactly the fill count; a reader is built with exactly buffer-length
\* bytes taken, so what the peer sent after its IV is still in the transport.
HandshakeTakesExactlyIv ==
    /\ [](rs_pos <= IvLen)
    /\ [](readers = 0 => peerSent - rx = rs_pos)
    /\ [][rs_pos' >= rs_pos]_vars
    /\ [][(rx' < rx /\ readers = 0) => \E h \in Handles : HsFill(h)]_vars
    /\ [][\A h \in Handles :
             HsBuild(h) => (rs_pos = IvLen /\ peerSent - rx = IvLen)]_vars

\* C20 witness: the reader has just been built and every byte the peer sent
\* after its IV is still in the transport.
IvOnlyConsumedWitness ==
    \E h \in Handles :
        /\ hpc[h] = "set"
        /\ dec[h] # 0
        /\ rs_pos = IvLen
        /\ peerSent = IvLen + MaxPayload
        /\ rx = MaxPayload

=============================================================================
